---- MODULE Spec2Model ----
(***************************************************************************)
(* Model of the DadDeck API Python SDK (dadddeck_api.py): the request      *)
(* primitive DadDeckAPI._request with its rate-limit header parser and     *)
(* error classification, APIError.get_retry_delay, and the two helpers     *)
(* fetch_with_retry and get_all_cards.                                     *)
(*                                                                         *)
(* Clock readings are in microseconds, delays in milliseconds.  The source *)
(* keeps the backoff delay in seconds (float) and divides                  *)
(* get_retry_delay() by 1000 before comparing; the model keeps both sides  *)
(* of that comparison in milliseconds.                                     *)
(***************************************************************************)
EXTENDS Integers, Sequences, FiniteSets, TLC

\* ------------------------------------------------------------------ bounds
\* largest max_retries passed to fetch_with_retry
MaxRetriesBound == 3
\* largest number of pages get_all_cards is followed through
MaxPages == 3
\* largest number of cards the modelled server puts on one page
MaxPageItems == 1
\* number of clock advances followed while one _request result is examined
MaxTicks == 2

\* ------------------------------------------------------- python constants
\* Optional[int] = None for APIError.status
NoStatus == -1
\* a string-valued field that is absent from a JSON object / is Python None
Absent == "<absent>"

Max(a, b) == IF a >= b THEN a ELSE b

\* int(x) of Python on a non-negative or negative quotient: truncation
\* towards zero (TLA+ \div is floor division)
TruncDiv(a, b) == IF a >= 0 THEN a \div b ELSE -((-a) \div b)

\* ---------------------------------------------------------- header values
\* One HTTP header value as requests' case-insensitive dict hands it out:
\* missing, the empty string, the decimal text of an integer, or other text.
HAbsent == [tag |-> "absent", val |-> 0]
HEmpty == [tag |-> "empty", val |-> 0]
HJunk == [tag |-> "junk", val |-> 0]
HInt(n) == [tag |-> "int", val |-> n]

\* truthiness of headers.get(name): None and "" are falsy
HTruthy(h) == h.tag \in {"int", "junk"}

\* int(text): defined on decimal text only, ValueError otherwise
IntParses(h) == h.tag = "int"

\* the rate_limit values an APIError / ApiResponse can carry
RLNone == [kind |-> "None"]
RLInfo(l, r, rs, t) ==
    [kind |-> "RateLimitInfo", limit |-> l, remaining |-> r, reset_at |-> rs, tier |-> t]
RLDict(has, rs) == [kind |-> "dict", hasReset |-> has, resetAt |-> rs]

\* reset_at = None inside a RateLimitInfo
NoReset == -1

\* DadDeckAPI._parse_rate_limit_headers; [exc |-> TRUE] stands for the
\* ValueError that int() raises on text that is not an integer
_parse_rate_limit_headers(headers) ==
    IF ~HTruthy(headers.Limit)
    THEN [exc |-> FALSE, value |-> RLNone]
    ELSE IF headers.Remaining.tag # "absent" /\ ~IntParses(headers.Remaining)
    THEN [exc |-> TRUE, value |-> RLNone]
    ELSE IF HTruthy(headers.Reset) /\ ~IntParses(headers.Reset)
    THEN [exc |-> TRUE, value |-> RLNone]
    ELSE IF ~IntParses(headers.Limit)
    THEN [exc |-> TRUE, value |-> RLNone]
    ELSE [exc |-> FALSE,
          value |-> RLInfo(headers.Limit.val,
                           IF headers.Remaining.tag = "absent" THEN 0
                           ELSE headers.Remaining.val,
                           IF HTruthy(headers.Reset) THEN 1000000 * headers.Reset.val
                           ELSE NoReset,
                           IF headers.Tier = Absent THEN "unknown" ELSE headers.Tier)]

\* ------------------------------------------------------------ JSON bodies
\* the "error" member of a response body
ErrAbsent == [tag |-> "absent", code |-> Absent, message |-> Absent]
ErrNull == [tag |-> "null", code |-> Absent, message |-> Absent]
ErrObj(c, m) == [tag |-> "object", code |-> c, message |-> m]

\* the "meta" member of a response body
MetaAbsent == [tag |-> "absent", requestId |-> Absent]
MetaNull == [tag |-> "null", requestId |-> Absent]
MetaObj(r) == [tag |-> "object", requestId |-> r]

\* the "data" member of a response body
DataAbsent == [tag |-> "absent", cards |-> <<>>, hasNext |-> FALSE]
DataNull == [tag |-> "null", cards |-> <<>>, hasNext |-> FALSE]
DataCards(cs, hn) == [tag |-> "cards", cards |-> cs, hasNext |-> hn]

\* a body that response.json() cannot decode, and a JSON object
BodyNotJson == [json |-> FALSE, error |-> ErrAbsent, meta |-> MetaAbsent, data |-> DataAbsent]
BodyObj(e, m, d) == [json |-> TRUE, error |-> e, meta |-> m, data |-> d]

\* what session.request delivers: a completed exchange or a transport failure
NoHeaders == [Limit |-> HAbsent, Remaining |-> HAbsent, Reset |-> HAbsent, Tier |-> Absent]
Exchange(st, hd, bd) == [kind |-> "response", status |-> st, headers |-> hd, body |-> bd]
TransportTimeout == [kind |-> "Timeout", status |-> NoStatus, headers |-> NoHeaders, body |-> BodyNotJson]
TransportFailure == [kind |-> "ConnectionError", status |-> NoStatus, headers |-> NoHeaders, body |-> BodyNotJson]

\* requests.Response.ok: raise_for_status() raises for 400 <= status < 600 only
ResponseOk(status) == ~(400 <= status /\ status < 600)

\* -------------------------------------------------------------- outcomes
\* an APIError value (APIError.__init__)
APIError(c, m, st, rl, rid) ==
    [kind |-> "APIError", code |-> c, message |-> m, status |-> st,
     rate_limit |-> rl, request_id |-> rid]
\* an ApiResponse value
ApiResponse(d, e, m, rl) ==
    [kind |-> "return", data |-> d, error |-> e, meta |-> m, rate_limit |-> rl]
\* an exception that is not an APIError leaving the function
Raised(name) == [kind |-> name]

\* ApiResponse.success
success(r) == r.error.tag \in {"absent", "null"}

\* APIError.is_rate_limit_error / is_auth_error
is_rate_limit_error(e) == e.code = "RATE_LIMIT_EXCEEDED"
is_auth_error(e) == e.code = "UNAUTHORIZED"

\* response.json() on a body that is not JSON: requests >= 2.27 raises
\* requests.exceptions.JSONDecodeError, a RequestException, which _request
\* turns into NETWORK_ERROR; older builds raise a plain ValueError subclass
\* that no except clause of _request catches.
JsonFailure(newRequests) ==
    IF newRequests
    THEN APIError("NETWORK_ERROR", "Expecting value", NoStatus, RLNone, Absent)
    ELSE Raised("JSONDecodeError")

\* DadDeckAPI._request, as a function of what session.request delivered
_request(x, newRequests) ==
    IF x.kind = "Timeout"
    THEN APIError("TIMEOUT", "Request timed out", NoStatus, RLNone, Absent)
    ELSE IF x.kind = "ConnectionError"
    THEN APIError("NETWORK_ERROR", "Connection failed", NoStatus, RLNone, Absent)
    ELSE LET rl == _parse_rate_limit_headers(x.headers) IN
         IF rl.exc THEN Raised("ValueError")
         ELSE IF ~x.body.json THEN JsonFailure(newRequests)
         ELSE IF ~ResponseOk(x.status)
         THEN IF x.body.error.tag = "null" \/ x.body.meta.tag = "null"
              THEN Raised("AttributeError")
              ELSE APIError(IF x.body.error.code = Absent THEN "API_ERROR"
                            ELSE x.body.error.code,
                            IF x.body.error.message = Absent THEN "Unknown error"
                            ELSE x.body.error.message,
                            x.status, rl.value, x.body.meta.requestId)
         ELSE ApiResponse(x.body.data, x.body.error, x.body.meta, rl.value)

\* DadDeckAPI.__init__: base_url.rstrip("/") and the session headers.  A
\* URL is its text without trailing slashes and the number of trailing slashes.
DadDeckAPI(api_key, base_url, timeout) ==
    [api_key |-> api_key,
     base_url |-> [text |-> base_url.text, slashes |-> 0],
     timeout |-> timeout,
     headers |-> [Authorization |-> <<"Bearer", api_key>>,
                  ContentType |-> "application/json"]]

\* the client after one _request call: _request reads self.base_url,
\* self.timeout and self.session and assigns none of them
ClientAfterRequestSetsHeader(c) ==
    [c EXCEPT !.headers = [c.headers EXCEPT !.ContentType = "text/plain"]]
ClientAfterRequest(c) == c

\* APIError.get_retry_delay evaluated at clock reading t; clock readings and
\* reset times are in microseconds (datetime resolution), the result is in
\* milliseconds.  A RateLimitInfo dataclass instance is truthy and has no
\* .get method, so the call leaves with AttributeError (exc).
get_retry_delay(e, t) ==
    IF e.rate_limit.kind = "RateLimitInfo"
    THEN [exc |-> TRUE, value |-> 0]
    ELSE IF e.rate_limit.kind = "dict" /\ e.rate_limit.hasReset
    THEN [exc |-> FALSE, value |-> Max(0, TruncDiv(e.rate_limit.resetAt - t, 1000))]
    ELSE [exc |-> FALSE, value |-> 60000]

\* ------------------------------------------------------------------ state
VARIABLES
    newRequests,     \* TRUE iff the installed requests raises its own JSONDecodeError
    now,             \* datetime.now(timezone.utc), microseconds
    client,          \* the DadDeckAPI instance: api_key, base_url, timeout, session headers
    \* one _request call and later get_retry_delay() queries on its error
    exchange, result, retryDelay, rpc,
    \* fetch_with_retry: arguments, locals, position, history
    max_retries, initial_delay, backoff_factor, attempt, delay, retry_delay,
    fpc, fwrOutcome, fwrLog,
    \* get_all_cards: argument, locals, position, history, the server's pages
    filters, page, all_cards, has_more, gpc, gacOutcome, calls, serverPages

reqVars == <<exchange, result, retryDelay, rpc>>
fwrVars == <<max_retries, initial_delay, backoff_factor, attempt, delay, retry_delay,
             fpc, fwrOutcome, fwrLog>>
gacVars == <<filters, page, all_cards, has_more, gpc, gacOutcome, calls, serverPages>>
vars == <<newRequests, now, client, reqVars, fwrVars, gacVars>>

\* "no value yet"
Nil == [kind |-> "nil"]

\* clock readings at which a scenario starts, and how long a call of the
\* wrapped operation may take (microseconds)
StartTimes == {10000000}
FuncDurations == {0, 700300}

\* ------------------------------------------------------- what servers send
RateLimitedBody == BodyObj(ErrObj("RATE_LIMIT_EXCEEDED", "Too many requests"),
                           MetaObj("req-1"), DataAbsent)
QuotaHeaders(reset) ==
    [Limit |-> HInt(1000), Remaining |-> HInt(0), Reset |-> reset, Tier |-> "free"]
OkExchange == Exchange(200, NoHeaders, BodyObj(ErrAbsent, MetaAbsent, DataCards(<<1>>, FALSE)))

\* ------------------------------------------------------- fetch_with_retry
\* for attempt in range(max_retries)
InLoopOffByOne(a, mr) == a <= mr
InLoop(a, mr) == a < mr

\* if e.is_rate_limit_error() and attempt < max_retries - 1
ShouldRetryAnyError(e, a, mr) == a < mr - 1
ShouldRetryOnLastAttempt(e, a, mr) == is_rate_limit_error(e) /\ a < mr
ShouldRetry(e, a, mr) == is_rate_limit_error(e) /\ a < mr - 1

\* retry_delay = max(e.get_retry_delay() / 1000, delay), in milliseconds
RetryWait(d, dl) == Max(d, dl)

\* delay *= backoff_factor
NextDelayAdds(dl, bf) == dl + bf
NextDelay(dl, bf) == dl * bf

\* what the wrapped operation can do: a client request answered by the
\* server, or any callable raising APIError with a mapping as rate_limit
RetryExchanges ==
    { OkExchange,
      Exchange(429, NoHeaders, RateLimitedBody),
      Exchange(429, QuotaHeaders(HInt(12)), RateLimitedBody),
      Exchange(401, NoHeaders, BodyObj(ErrObj("UNAUTHORIZED", "Bad key"), MetaAbsent, DataAbsent)),
      Exchange(400, NoHeaders, BodyObj(ErrObj("VALIDATION_ERROR", "Bad page"), MetaAbsent, DataAbsent)),
      Exchange(200, [NoHeaders EXCEPT !.Limit = HJunk], BodyObj(ErrAbsent, MetaAbsent, DataAbsent)),
      TransportTimeout,
      TransportFailure }
CustomErrors ==
    { APIError("RATE_LIMIT_EXCEEDED", "Too many requests", 429, rl, Absent) :
        rl \in {RLDict(TRUE, 12000000), RLDict(TRUE, 5000000), RLDict(FALSE, 0)} }
\* the outcomes of func when it is a request through the client
ClientOutcomes == {_request(x, newRequests) : x \in RetryExchanges}
FuncOutcomes == ClientOutcomes \cup CustomErrors

AttemptEvent(t, out) == [ev |-> "attempt", at |-> t, out |-> out, ms |-> 0]
WaitEvent(t, w) == [ev |-> "wait", at |-> t, out |-> Nil, ms |-> w]

FwrIdle ==
    /\ max_retries = 0 /\ initial_delay = 0 /\ backoff_factor = 0
    /\ attempt = 0 /\ delay = 0 /\ retry_delay = 0
    /\ fpc = "idle" /\ fwrOutcome = Nil /\ fwrLog = <<>>

\* delay = initial_delay, before the first iteration
FwrStart ==
    /\ max_retries \in 0..MaxRetriesBound
    /\ initial_delay \in {1000, 2500}
    /\ backoff_factor \in {2, 3}
    /\ attempt = 0
    /\ delay = initial_delay
    /\ retry_delay = 0
    /\ fpc = "loop"
    /\ fwrOutcome = Nil
    /\ fwrLog = <<>>

\* one iteration of the loop up to the return, the raise or the sleep call
FwrStep(outs) ==
    /\ fpc = "loop"
    /\ InLoop(attempt, max_retries)
    /\ \E out \in outs, dur \in FuncDurations :
        /\ now' = now + dur
        /\ client' = IF out \in ClientOutcomes THEN ClientAfterRequest(client) ELSE client
        /\ IF out.kind = "return"
           THEN /\ fpc' = "returned"
                /\ fwrOutcome' = out
                /\ fwrLog' = Append(fwrLog, AttemptEvent(now', out))
                /\ UNCHANGED retry_delay
           ELSE IF out.kind = "APIError" /\ ShouldRetry(out, attempt, max_retries)
           THEN LET d == get_retry_delay(out, now') IN
                IF d.exc
                THEN /\ fpc' = "raised"
                     /\ fwrOutcome' = Raised("AttributeError")
                     /\ fwrLog' = Append(fwrLog, AttemptEvent(now', out))
                     /\ UNCHANGED retry_delay
                ELSE /\ fpc' = "sleeping"
                     /\ retry_delay' = RetryWait(d.value, delay)
                     /\ fwrLog' = fwrLog \o <<AttemptEvent(now', out),
                                              WaitEvent(now', retry_delay')>>
                     /\ UNCHANGED fwrOutcome
           ELSE /\ fpc' = "raised"
                /\ fwrOutcome' = out
                /\ fwrLog' = Append(fwrLog, AttemptEvent(now', out))
                /\ UNCHANGED retry_delay
    /\ UNCHANGED <<newRequests, max_retries, initial_delay, backoff_factor, attempt, delay,
                   reqVars, gacVars>>

\* func is any callable
FwrAttempt == FwrStep(FuncOutcomes)
\* func is lambda: client.cards.list() or another request through the client
FwrClientAttempt == FwrStep(ClientOutcomes)

\* time.sleep(retry_delay) returns; delay *= backoff_factor; continue
FwrWake ==
    /\ fpc = "sleeping"
    /\ now' = now + 1000 * retry_delay
    /\ delay' = NextDelay(delay, backoff_factor)
    /\ attempt' = attempt + 1
    /\ fpc' = "loop"
    /\ UNCHANGED <<newRequests, client, max_retries, initial_delay, backoff_factor, retry_delay,
                   fwrOutcome, fwrLog, reqVars, gacVars>>

\* APIError("MAX_RETRIES", "Maximum retries exceeded"): status, rate_limit and
\* request_id keep their defaults (None)
MaxRetriesErrorFromLastFailure ==
    APIError("MAX_RETRIES", "Maximum retries exceeded", 429, RLDict(FALSE, 0), Absent)
MaxRetriesError ==
    APIError("MAX_RETRIES", "Maximum retries exceeded", NoStatus, RLNone, Absent)

\* the loop ran out: raise APIError("MAX_RETRIES", ...)
FwrExhausted ==
    /\ fpc = "loop"
    /\ ~InLoop(attempt, max_retries)
    /\ fpc' = "raised"
    /\ fwrOutcome' = MaxRetriesError
    /\ UNCHANGED <<newRequests, client, now, max_retries, initial_delay, backoff_factor, attempt,
                   delay, retry_delay, fwrLog, reqVars, gacVars>>

\* --------------------------------------------------------------- _request
HeaderSets ==
    [Limit : {HAbsent, HEmpty, HInt(1000), HJunk},
     Remaining : {HAbsent, HInt(999), HInt(-1), HJunk},
     Reset : {HAbsent, HInt(12), HInt(5), HJunk},
     Tier : {Absent, "pro"}]
ErrorMembers ==
    {ErrAbsent, ErrNull} \cup
    {ErrObj(c, m) : c \in {Absent, "RATE_LIMIT_EXCEEDED"}, m \in {Absent, "Too many requests"}}
Bodies ==
    {BodyNotJson} \cup
    {BodyObj(e, m, d) : e \in ErrorMembers,
                        m \in {MetaAbsent, MetaNull, MetaObj("req-1")},
                        d \in {DataAbsent, DataCards(<<1>>, FALSE)}}
Statuses == {200, 304, 429, 500}
Exchanges ==
    {Exchange(st, hd, bd) : st \in Statuses, hd \in HeaderSets, bd \in Bodies}
        \cup {TransportTimeout, TransportFailure}

NotAsked == [asked |-> FALSE, at |-> 0, exc |-> FALSE, value |-> 0]
ClockLimit == 10000000 + MaxTicks * 700300

ReqIdle == exchange = Nil /\ result = Nil /\ retryDelay = NotAsked /\ rpc = "idle"
ReqStart == exchange = Nil /\ result = Nil /\ retryDelay = NotAsked /\ rpc = "ready"

\* one call of DadDeckAPI._request, answered by x
Request ==
    /\ rpc = "ready"
    /\ \E x \in Exchanges :
        /\ exchange' = x
        /\ result' = _request(x, newRequests)
    /\ client' = ClientAfterRequest(client)
    /\ rpc' = "done"
    /\ UNCHANGED <<newRequests, now, retryDelay, fwrVars, gacVars>>

\* time passes between the raise and a get_retry_delay() query
Tick ==
    /\ rpc = "done"
    /\ now < ClockLimit
    /\ \E d \in FuncDurations \ {0} : now' = now + d
    /\ UNCHANGED <<newRequests, client, reqVars, fwrVars, gacVars>>

\* the caller asks the raised APIError for its retry delay
GetRetryDelay ==
    /\ rpc = "done"
    /\ result.kind = "APIError"
    /\ LET d == get_retry_delay(result, now) IN
       retryDelay' = [asked |-> TRUE, at |-> now, exc |-> d.exc, value |-> d.value]
    /\ UNCHANGED <<newRequests, client, now, exchange, result, rpc, fwrVars, gacVars>>

\* ---------------------------------------------------------- get_all_cards
\* the keyword parameters of CardsAPI.list
ListKeywords == {"page", "page_size", "rarity", "type", "series", "search"}

\* params = {**(filters or {}), "page": page, "pageSize": 100}
BuildParams(f, p) ==
    [k \in (DOMAIN f) \cup {"page", "pageSize"} |->
        IF k = "page" THEN [int |-> p, str |-> Absent]
        ELSE IF k = "pageSize" THEN [int |-> 100, str |-> Absent]
        ELSE f[k]]

\* client.cards.list(**params): Python binds keyword arguments by name and
\* raises TypeError on a name that is not a parameter of the callee
Binds(kw) == DOMAIN kw \subseteq ListKeywords

\* the query CardsAPI.list sends: page and pageSize always, each filter
\* only when given and truthy
ListQuery(kw) ==
    [page |-> kw["page"].int,
     pageSize |-> IF "page_size" \in DOMAIN kw THEN kw["page_size"].int ELSE 50,
     rarity |-> IF "rarity" \in DOMAIN kw THEN kw["rarity"].str ELSE Absent,
     type |-> IF "type" \in DOMAIN kw THEN kw["type"].str ELSE Absent]

\* filters a caller may pass (None is the empty mapping)
NoFilters == [k \in {} |-> [int |-> 0, str |-> Absent]]
FilterSets ==
    { NoFilters,
      [k \in {"rarity"} |-> [int |-> 0, str |-> "rare"]],
      [k \in {"rarity", "type"} |-> [int |-> 0, str |-> IF k = "rarity" THEN "rare" ELSE "BBQ_DAD"]] }

\* the answers a server can give for one page
RECURSIVE SeqsUpTo(_, _)
SeqsUpTo(S, n) ==
    IF n = 0 THEN {<<>>}
    ELSE LET shorter == SeqsUpTo(S, n - 1) IN
         shorter \cup {Append(q, e) : q \in {r \in shorter : Len(r) = n - 1}, e \in S}
CardIds == {1, 2}
PageAnswers ==
    {Exchange(200, NoHeaders, BodyObj(ErrAbsent, MetaAbsent, DataCards(cs, hn))) :
        cs \in SeqsUpTo(CardIds, MaxPageItems), hn \in BOOLEAN}
    \cup {Exchange(429, NoHeaders, RateLimitedBody)}

RECURSIVE ServerScripts(_)
ServerScripts(n) ==
    IF n = 0 THEN {<<>>}
    ELSE {Append(q, a) : q \in ServerScripts(n - 1), a \in PageAnswers}

\* the server's answer to the request for page p: its script, and an empty
\* last page beyond it
ServerAnswer(p) ==
    IF p <= Len(serverPages) THEN serverPages[p]
    ELSE Exchange(200, NoHeaders, BodyObj(ErrAbsent, MetaAbsent, DataCards(<<>>, FALSE)))

GacIdle ==
    /\ filters = NoFilters /\ page = 0 /\ all_cards = <<>> /\ has_more = FALSE
    /\ gpc = "idle" /\ gacOutcome = Nil /\ calls = <<>> /\ serverPages = <<>>

\* all_cards = []; page = 1; has_more = True
GacStartWith(scripts) ==
    /\ filters \in FilterSets
    /\ serverPages \in scripts
    /\ page = 1
    /\ all_cards = <<>>
    /\ has_more = TRUE
    /\ gpc = "loop"
    /\ gacOutcome = Nil
    /\ calls = <<>>

GacStart == GacStartWith(UNION {ServerScripts(n) : n \in 1..MaxPages})

\* one iteration of "while has_more", or the return after the loop
GacIteration ==
    /\ gpc = "loop"
    /\ page <= MaxPages + 1
    /\ IF ~has_more
       THEN /\ gpc' = "returned"
            /\ gacOutcome' = [kind |-> "return", cards |-> all_cards]
            /\ UNCHANGED <<page, all_cards, has_more, calls>>
       ELSE LET params == BuildParams(filters, page) IN
            IF ~Binds(params)
            THEN /\ gpc' = "raised"
                 /\ gacOutcome' = Raised("TypeError")
                 /\ UNCHANGED <<page, all_cards, has_more, calls>>
            ELSE LET response == _request(ServerAnswer(page), newRequests) IN
                 /\ calls' = Append(calls, ListQuery(params))
                 /\ IF response.kind # "return"
                    THEN /\ gpc' = "raised"
                         /\ gacOutcome' = response
                         /\ UNCHANGED <<page, all_cards, has_more>>
                    ELSE IF response.data.tag # "cards"
                    THEN /\ gpc' = "raised"
                         /\ gacOutcome' = Raised("TypeError")
                         /\ UNCHANGED <<page, all_cards, has_more>>
                    ELSE /\ all_cards' = all_cards \o response.data.cards
                         /\ has_more' = response.data.hasNext
                         /\ page' = page + 1
                         /\ gpc' = "loop"
                         /\ UNCHANGED gacOutcome
    /\ client' = IF has_more /\ Binds(BuildParams(filters, page))
                 THEN ClientAfterRequest(client) ELSE client
    /\ UNCHANGED <<newRequests, now, filters, serverPages, reqVars, fwrVars>>

\* --------------------------------------------------------- specifications
\* the clients a program constructs: DadDeckAPI(api_key), with the default
\* base URL written with or without a trailing slash and the default timeout
Clients ==
    {DadDeckAPI("ddpk_live_abc123", [text |-> "https://api.dadddeck.com/v1", slashes |-> n], 30) :
        n \in {0, 1}}

\* fetch_with_retry around an arbitrary operation
Init ==
    /\ newRequests \in BOOLEAN
    /\ now \in StartTimes
    /\ client \in Clients
    /\ FwrStart /\ ReqIdle /\ GacIdle

Next ==
    \/ FwrAttempt
    \/ FwrWake
    \/ FwrExhausted

Spec == Init /\ [][Next]_vars

\* one _request call and the retry-delay queries on what it raised
InitRequest ==
    /\ newRequests \in BOOLEAN
    /\ now \in StartTimes
    /\ client \in Clients
    /\ ReqStart /\ FwrIdle /\ GacIdle

NextRequest ==
    \/ Request
    \/ Tick
    \/ GetRetryDelay

SpecRequest == InitRequest /\ [][NextRequest]_vars

\* get_all_cards against a server with a fixed script of pages
InitPages ==
    /\ newRequests \in BOOLEAN
    /\ now \in StartTimes
    /\ client \in Clients
    /\ GacStart /\ ReqIdle /\ FwrIdle

NextPages == GacIteration

SpecPages == InitPages /\ [][NextPages]_vars

\* one fetch_with_retry call around a client request and one get_all_cards
\* call, running concurrently on the same client (any interleaving of their
\* steps)
InitConc ==
    /\ newRequests \in BOOLEAN
    /\ now \in StartTimes
    /\ client \in Clients
    /\ FwrStart /\ GacStartWith(ServerScripts(1)) /\ ReqIdle

NextConc ==
    \/ FwrClientAttempt
    \/ FwrWake
    \/ FwrExhausted
    \/ GacIteration

SpecConc == InitConc /\ [][NextConc]_vars

\* ------------------------------------------------------------- properties
RECURSIVE Pow(_, _)
Pow(b, n) == IF n = 0 THEN 1 ELSE b * Pow(b, n - 1)

AttemptIdx == {i \in 1..Len(fwrLog) : fwrLog[i].ev = "attempt"}
WaitIdx == {i \in 1..Len(fwrLog) : fwrLog[i].ev = "wait"}
NumAttempts == Cardinality(AttemptIdx)
\* the number of the attempt logged at position i (1 for the first)
AttemptNo(i) == Cardinality({j \in AttemptIdx : j <= i})
FwrDone == fpc \in {"returned", "raised"}
IsRateLimitFailure(out) == out.kind = "APIError" /\ out.code = "RATE_LIMIT_EXCEEDED"

\* C1: for max_retries >= 1, when every attempt raised a rate-limit error,
\* a finished fetch_with_retry has invoked the operation exactly max_retries
\* times and has raised an APIError whose code is MAX_RETRIES.
C1_RaisesMaxRetries ==
    (/\ FwrDone
     /\ max_retries >= 1
     /\ \A i \in AttemptIdx : IsRateLimitFailure(fwrLog[i].out))
    => /\ NumAttempts = max_retries
       /\ fwrOutcome.kind = "APIError"
       /\ fwrOutcome.code = "MAX_RETRIES"

\* the backoff delay in force at attempt number k
BackoffAt(k) == initial_delay * Pow(backoff_factor, k - 1)
\* the retry delay of the error logged at position i, read when it was caught
RetryDelayAt(i) == get_retry_delay(fwrLog[i].out, fwrLog[i].at).value

\* C2: every wait lies strictly between two attempts; the wait after attempt
\* k is max(retry delay of attempt k's error, initial_delay *
\* backoff_factor^(k-1)), so with initial_delay 1000 ms and factor 2 the
\* waits before attempts 2 and 3 are at least 1000 ms and 2000 ms; and the
\* backoff delay has been multiplied by backoff_factor once per finished wait.
C2_WaitIsMaxOfHintAndBackoff ==
    /\ \A i \in WaitIdx :
        /\ i > 1
        /\ fwrLog[i - 1].ev = "attempt"
        /\ IsRateLimitFailure(fwrLog[i - 1].out)
        /\ i < Len(fwrLog) => fwrLog[i + 1].ev = "attempt"
        /\ i = Len(fwrLog) =>
              \/ fpc = "sleeping"
              \/ fpc = "loop" /\ attempt < max_retries
        /\ fwrLog[i].ms = Max(RetryDelayAt(i - 1), BackoffAt(AttemptNo(i - 1)))
        /\ (initial_delay = 1000 /\ backoff_factor = 2) =>
              /\ AttemptNo(i - 1) = 1 => fwrLog[i].ms >= 1000
              /\ AttemptNo(i - 1) = 2 => fwrLog[i].ms >= 2000
    /\ delay = initial_delay *
               Pow(backoff_factor, Cardinality(WaitIdx) - (IF fpc = "sleeping" THEN 1 ELSE 0))

\* a finished run with two waits, one set by the error's retry delay and one
\* set by the backoff delay
C2_Witness ==
    /\ FwrDone
    /\ Cardinality(WaitIdx) >= 2
    /\ \E i \in WaitIdx : RetryDelayAt(i - 1) > BackoffAt(AttemptNo(i - 1))
    /\ \E i \in WaitIdx : /\ AttemptNo(i - 1) = 2
                          /\ RetryDelayAt(i - 1) < BackoffAt(2)
                          /\ fwrLog[i].ms = BackoffAt(2)

\* C3: an attempt that raises an APIError other than a rate-limit error is
\* the last thing fetch_with_retry does: no wait and no attempt follows, and
\* that very error is what the caller gets.
C3_OtherErrorsRaisedAtOnce ==
    \A i \in AttemptIdx :
        (fwrLog[i].out.kind = "APIError" /\ ~is_rate_limit_error(fwrLog[i].out))
        => /\ i = Len(fwrLog)
           /\ fpc = "raised"
           /\ fwrOutcome = fwrLog[i].out

\* an auth error on the first attempt, with attempts left
C3_Witness ==
    /\ max_retries >= 2
    /\ fpc = "raised"
    /\ Len(fwrLog) = 1
    /\ fwrLog[1].out.kind = "APIError"
    /\ is_auth_error(fwrLog[1].out)

\* C4: the operation is invoked at most max_retries times, and an attempt
\* that succeeds is the last thing fetch_with_retry does: its result is
\* returned with no further attempt and no further wait.
C4_BoundedAttemptsReturnOnSuccess ==
    /\ NumAttempts <= max_retries
    /\ \A i \in AttemptIdx :
        fwrLog[i].out.kind = "return"
        => /\ i = Len(fwrLog)
           /\ fpc = "returned"
           /\ fwrOutcome = fwrLog[i].out

\* success on the second of three allowed attempts
C4_Witness ==
    /\ max_retries = 3
    /\ fpc = "returned"
    /\ NumAttempts = 2
    /\ Cardinality(WaitIdx) = 1

\* ---- get_all_cards
GacDone == gpc \in {"returned", "raised"}
IsPage(x) == x.kind = "response" /\ x.status = 200 /\ x.body.json /\ x.body.data.tag = "cards"
\* the server answers pages 1..n-1 with hasNext = true and page n with
\* hasNext = false, all successfully
EndsAtPage(n) ==
    /\ n <= Len(serverPages)
    /\ \A i \in 1..n : IsPage(serverPages[i])
    /\ \A i \in 1..(n - 1) : serverPages[i].body.data.hasNext
    /\ ~serverPages[n].body.data.hasNext

ExpectedQuery(i) ==
    [page |-> i, pageSize |-> 100,
     rarity |-> IF "rarity" \in DOMAIN filters THEN filters["rarity"].str ELSE Absent,
     type |-> IF "type" \in DOMAIN filters THEN filters["type"].str ELSE Absent]
RECURSIVE ItemsUpTo(_)
ItemsUpTo(n) == IF n = 0 THEN <<>> ELSE ItemsUpTo(n - 1) \o serverPages[n].body.data.cards

\* C6: against a server that answers pages 1..n successfully, hasNext = true
\* on pages 1..n-1 and false on page n, a finished get_all_cards has issued
\* exactly n list calls with page = 1..n in order, pageSize = 100 and the
\* caller's filters, and has returned the pages' items concatenated in page
\* order.
C6_CollectsAllPagesInOrder ==
    \A n \in 1..MaxPages :
        (GacDone /\ EndsAtPage(n))
        => /\ gpc = "returned"
           /\ calls = [i \in 1..n |-> ExpectedQuery(i)]
           /\ gacOutcome.cards = ItemsUpTo(n)

\* ---- _request
Completed == rpc = "done" /\ exchange.kind = "response"
InSuccessRange(st) == 200 <= st /\ st <= 299
HeadersParse == ~_parse_rate_limit_headers(exchange.headers).exc

\* C7: for a completed exchange with status in 200-299 (whose rate-limit
\* headers parse), _request raises nothing and returns an ApiResponse whose
\* success is true, whatever the body contains.
C7_SuccessRangeNeverRaises ==
    (Completed /\ HeadersParse /\ InSuccessRange(exchange.status))
    => /\ result.kind = "return"
       /\ success(result)

\* C8: for a completed exchange with status outside 200-299 (whose
\* rate-limit headers parse and whose body is a JSON object), _request
\* raises an APIError with that status,
\* whose code and message are the body's error.code and error.message when
\* present and "API_ERROR" and "Unknown error" when the error object or the
\* field is absent or the error member is null.
C8_FailureRaisesClassifiedError ==
    (Completed /\ HeadersParse /\ exchange.body.json /\ ~InSuccessRange(exchange.status))
    => /\ result.kind = "APIError"
       /\ result.status = exchange.status
       /\ result.code = (IF exchange.body.error.code = Absent THEN "API_ERROR"
                         ELSE exchange.body.error.code)
       /\ result.message = (IF exchange.body.error.message = Absent THEN "Unknown error"
                            ELSE exchange.body.error.message)

\* C9: for a failing response (status outside 200-299, rate-limit headers
\* parse) whose body is not JSON, _request raises an APIError with code
\* "API_ERROR", message "Unknown error" and the response's status.
C9_UnparseableBodyGetsDefaults ==
    (Completed /\ HeadersParse /\ ~exchange.body.json /\ ~InSuccessRange(exchange.status))
    => /\ result.kind = "APIError"
       /\ result.code = "API_ERROR"
       /\ result.message = "Unknown error"
       /\ result.status = exchange.status

\* C10: whenever get_retry_delay is asked of an APIError that _request built
\* from a server response, it does not fail, its value is not negative, and
\* it is max(0, reset_at - now) in milliseconds when the response carried a
\* reset time and 60000 when it carried none.
C10_RetryDelayFromResetTime ==
    (retryDelay.asked /\ exchange.kind = "response" /\ result.kind = "APIError"
        /\ result.status # NoStatus)
    => /\ ~retryDelay.exc
       /\ retryDelay.value >= 0
       /\ retryDelay.value =
            (IF result.rate_limit.kind = "RateLimitInfo"
                /\ result.rate_limit.reset_at # NoReset
             THEN IF result.rate_limit.reset_at > retryDelay.at
                  THEN (result.rate_limit.reset_at - retryDelay.at) \div 1000
                  ELSE 0
             ELSE 60000)

\* ---- _parse_rate_limit_headers, through _request
\* the RateLimitInfo the call produced, if it produced one
ProducedRateLimit ==
    rpc = "done" /\ result.kind \in {"return", "APIError"}
        /\ result.rate_limit.kind = "RateLimitInfo"

\* C11: every RateLimitInfo produced from a response's headers, whatever the
\* server sent (a negative X-RateLimit-Remaining included), has
\* remaining >= 0.
C11_RemainingNeverNegative ==
    ProducedRateLimit => result.rate_limit.remaining >= 0

\* C12: with X-RateLimit-Limit present (and itself an integer, as is
\* X-RateLimit-Reset when sent), a missing or unparseable
\* X-RateLimit-Remaining gives a RateLimitInfo with remaining = 0 and raises
\* nothing because of the header; with X-RateLimit-Limit absent the parser
\* returns nothing.
C12_RemainingDefaultsToZero ==
    Completed =>
        LET h == exchange.headers
            parsed == _parse_rate_limit_headers(h) IN
        /\ (/\ IntParses(h.Limit)
            /\ (HTruthy(h.Reset) => IntParses(h.Reset))
            /\ h.Remaining.tag \in {"absent", "empty", "junk"})
           => /\ result.kind # "ValueError"
              /\ ~parsed.exc
              /\ parsed.value.kind = "RateLimitInfo"
              /\ parsed.value.remaining = 0
        /\ h.Limit.tag = "absent" => (~parsed.exc /\ parsed.value = RLNone)

\* ---- fetch_with_retry, continued
\* the rate-limit error _request raises for a 429 whose headers carry
\* X-RateLimit-Limit and X-RateLimit-Reset
IsRateLimitedResponseError(out) ==
    /\ IsRateLimitFailure(out)
    /\ out.rate_limit.kind = "RateLimitInfo"
    /\ out.rate_limit.reset_at # NoReset

\* C13: with max_retries >= 2, when the first request is answered by a
\* RATE_LIMIT_EXCEEDED response carrying rate-limit headers, fetch_with_retry
\* waits once and issues a second request (whose 2xx response it returns):
\* a finished call has a wait and a second attempt after the first, and if
\* that second attempt returned, its ApiResponse is the result.
C13_RetriesAfterRateLimitedResponse ==
    (/\ FwrDone
     /\ max_retries >= 2
     /\ Len(fwrLog) >= 1
     /\ IsRateLimitedResponseError(fwrLog[1].out))
    => /\ Len(fwrLog) >= 3
       /\ fwrLog[2].ev = "wait"
       /\ fwrLog[3].ev = "attempt"
       /\ fwrLog[3].out.kind = "return" => (fpc = "returned" /\ fwrOutcome = fwrLog[3].out)

\* C14: when attempt number max_retries fails with a rate-limit error, no
\* wait follows it and the caller gets that very error value: code, message,
\* status, rate-limit snapshot and request id unchanged.
C14_LastAttemptErrorReraised ==
    \A i \in AttemptIdx :
        (AttemptNo(i) = max_retries /\ IsRateLimitFailure(fwrLog[i].out))
        => /\ i = Len(fwrLog)
           /\ fpc = "raised"
           /\ fwrOutcome = fwrLog[i].out

\* the last of several allowed attempts fails with the rate-limit error of a
\* response that carried rate-limit headers
C14_Witness ==
    /\ max_retries >= 2
    /\ NumAttempts = max_retries
    /\ fpc = "raised"
    /\ IsRateLimitedResponseError(fwrLog[Len(fwrLog)].out)
    /\ fwrOutcome.request_id = "req-1"

\* C16: with max_retries = 0 the operation is never invoked and no wait is
\* made, and what a finished call has raised is an APIError with code
\* MAX_RETRIES, no HTTP status and no rate-limit snapshot.
C16_ZeroRetriesRaisesMaxRetries ==
    max_retries = 0
    => /\ fwrLog = <<>>
       /\ fpc \in {"loop", "raised"}
       /\ fpc = "raised" =>
            /\ fwrOutcome.kind = "APIError"
            /\ fwrOutcome.code = "MAX_RETRIES"
            /\ fwrOutcome.status = NoStatus
            /\ fwrOutcome.rate_limit = RLNone

\* fetch_with_retry(func, max_retries=0) has finished
C16_Witness ==
    /\ max_retries = 0
    /\ fpc = "raised"
    /\ fwrOutcome.kind = "APIError"

\* ---- get_all_cards, continued
\* the server answers pages 1..k-1 successfully with hasNext = true and
\* page k with an error response
FailsAtPage(k) ==
    /\ k <= Len(serverPages)
    /\ \A i \in 1..(k - 1) : IsPage(serverPages[i]) /\ serverPages[i].body.data.hasNext
    /\ _request(serverPages[k], newRequests).kind = "APIError"

RECURSIVE GacAlone(_, _, _)
GacAlone(p, acc, cs) ==
    LET params == BuildParams(filters, p) IN
    IF ~Binds(params) THEN [outcome |-> Raised("TypeError"), calls |-> cs]
    ELSE LET response == _request(ServerAnswer(p), newRequests)
             sent == Append(cs, ListQuery(params)) IN
         IF response.kind # "return" THEN [outcome |-> response, calls |-> sent]
         ELSE IF response.data.tag # "cards"
         THEN [outcome |-> Raised("TypeError"), calls |-> sent]
         ELSE IF response.data.hasNext /\ p <= MaxPages
         THEN GacAlone(p + 1, acc \o response.data.cards, sent)
         ELSE [outcome |-> [kind |-> "return", cards |-> acc \o response.data.cards],
               calls |-> sent]

\* the attempts, waits and result of the fetch_with_retry call are those of
\* a call running alone on the outcomes its attempts met
FwrAsAlone ==
    /\ C2_WaitIsMaxOfHintAndBackoff
    /\ C3_OtherErrorsRaisedAtOnce
    /\ C4_BoundedAttemptsReturnOnSuccess
    /\ C14_LastAttemptErrorReraised
    /\ attempt = Cardinality(WaitIdx) - (IF fpc = "sleeping" THEN 1 ELSE 0)

\* the requests and result of the get_all_cards call are those of a call
\* running alone against the same server
GacAsAlone ==
    /\ ~GacDone => (page = 1 /\ all_cards = <<>> /\ has_more /\ calls = <<>>)
    /\ GacDone => (gacOutcome = GacAlone(1, <<>>, <<>>).outcome
                     /\ calls = GacAlone(1, <<>>, <<>>).calls)

====
